---------------------------- MODULE Spec2Model ----------------------------
(***************************************************************************)
(* Construction of points, translations and similarities in nalgebra       *)
(* (src/geometry/point_construction.rs, translation_construction.rs,       *)
(* similarity_construction.rs).                                            *)
(*                                                                         *)
(* The constructors are generic over the scalar type N.  Scalars are       *)
(* modelled as exact rationals <<n, d>> in lowest terms with d > 0, so     *)
(* that TLA+ equality is scalar equality and is_zero is the exact test     *)
(* n = 0.  A division by zero yields <<1,0>>, <<-1,0>> or <<0,0>> (the     *)
(* infinities and NaN of a floating scalar); the arithmetic below treats   *)
(* them as IEEE does.  Rounding of floating scalars is not modelled: the   *)
(* crate's own tests compare floating results up to an epsilon.            *)
(***************************************************************************)
EXTENDS Integers, Sequences, FiniteSets, TLC

VARIABLES
    op,     \* the operation that was called ("none" before any call)
    args,   \* its arguments
    out,    \* what it returned
    pc,     \* position inside a running call of sample / arbitrary
    s,      \* the local `s` of sample / arbitrary: the current scaling draw
    draws   \* the values consumed from the randomness source so far, in order

vars == <<op, args, out, pc, s, draws>>

---------------------------------------------------------------------------
(* Bounds of the model *)

\* numerators of the input scalars range over -MaxNum..MaxNum
MaxNum == 2
\* denominators of the input scalars range over 1..MaxDen
MaxDen == 2
\* dimensions D of points and translations range over 1..MaxDim
MaxDim == 2
\* coordinates given to the similarity constructors range over -MaxCoord..MaxCoord
MaxCoord == 1
\* angles range over -MaxTurns..MaxTurns quarter turns
MaxTurns == 2
\* a call of sample / arbitrary draws at most MaxDraws scalings
MaxDraws == 3
\* the comparison epsilon of the scalar type is 1/EpsDen
EpsDen == 4

---------------------------------------------------------------------------
(* Scalars *)

Abs(n) == IF n < 0 THEN -n ELSE n

Sign(n) == IF n < 0 THEN -1 ELSE IF n = 0 THEN 0 ELSE 1

RECURSIVE Gcd(_, _)
Gcd(a, b) == IF b = 0 THEN a ELSE Gcd(b, a % b)

\* the scalar n/d
Rat(n, d) ==
    IF d = 0 THEN <<Sign(n), 0>>
    ELSE LET g == Gcd(Abs(n), Abs(d))
         IN  <<Sign(d) * (n \div g), Abs(d) \div g>>

Zero == <<0, 1>>
One == <<1, 1>>

is_zero(a) == a[1] = 0 /\ a[2] # 0

IsFinite(a) == a[2] # 0

Add(a, b) ==
    IF a[2] = 0 /\ b[2] = 0
    THEN (IF a[1] = b[1] THEN a ELSE <<0, 0>>)
    ELSE Rat(a[1] * b[2] + b[1] * a[2], a[2] * b[2])

Neg(a) == <<-a[1], a[2]>>

Sub(a, b) == Add(a, Neg(b))

Mul(a, b) == Rat(a[1] * b[1], a[2] * b[2])

Div(a, b) ==
    IF a[2] = 0 /\ b[2] = 0 THEN <<0, 0>>
    ELSE Rat(a[1] * b[2] * Sign(b[1]), a[2] * Abs(b[1]))

AbsVal(a) == <<Abs(a[1]), a[2]>>

\* a <= b, false when either side is NaN
Leq(a, b) ==
    /\ a # <<0, 0>>
    /\ b # <<0, 0>>
    /\ IF a[2] = 0 THEN (a[1] = -1 \/ a = b)
       ELSE IF b[2] = 0 THEN b[1] = 1
       ELSE a[1] * b[2] <= b[1] * a[2]

Scalars == {Rat(n, d) : n \in -MaxNum..MaxNum, d \in 1..MaxDen}

Dims == 1..MaxDim

\* the vectors of dimension n over the input scalars
Vectors(n) == [1..n -> Scalars]

---------------------------------------------------------------------------
(* Vectors (the matrix collaborator) *)

VAdd(u, v) == [i \in 1..Len(u) |-> Add(u[i], v[i])]

VSub(u, v) == [i \in 1..Len(u) |-> Sub(u[i], v[i])]

VNeg(u) == [i \in 1..Len(u) |-> Neg(u[i])]

\* u * k
VScale(u, k) == [i \in 1..Len(u) |-> Mul(u[i], k)]

\* a quotient that multiplies
VDiv_multiplying(u, k) == [i \in 1..Len(u) |-> Mul(u[i], k)]

\* u / k
VDiv(u, k) == [i \in 1..Len(u) |-> Div(u[i], k)]

\* VectorN::from_element(e) in dimension D
from_element(D, e) == [i \in 1..D |-> e]

\* a slice that starts one row too low
fixed_slice_from_1(v, D) == [i \in 1..D |-> v[i + 1]]

\* v.fixed_slice::<D, U1>(0, 0): the first D rows of the column v
fixed_slice(v, D) == [i \in 1..D |-> v[i]]

---------------------------------------------------------------------------
(* Option *)

None == <<>>

Some(x) == <<x>>

---------------------------------------------------------------------------
(* Point construction *)

\* a point is its coordinate vector
Point_from(coords) == coords

origin(D) == Point_from(from_element(D, Zero))

\* a from_homogeneous that tests the first component instead of the last
from_homogeneous_tests_first(D, v) ==
    IF ~is_zero(v[1])
    THEN Some(Point_from(VDiv([i \in 1..D |-> v[i]], v[D + 1])))
    ELSE None

\* v[D::dim()] is the last of the D+1 components (0-based index D)
from_homogeneous(D, v) ==
    IF ~is_zero(v[D + 1])
    THEN LET coords == VDiv(fixed_slice(v, D), v[D + 1])
         IN  Some(Point_from(coords))
    ELSE None

\* the homogeneous vector of p with last component k: concat(p.coords * k, [k])
to_homogeneous_scaled(p, k) == Append(VScale(p, k), k)

---------------------------------------------------------------------------
(* Translation construction *)

\* a translation is its displacement vector
Translation_from(vector) == vector

\* an identity built from ones
Translation_identity_of_ones(D) == [i \in 1..D |-> One]

Translation_identity(D) == Translation_from(from_element(D, Zero))

Translation_one(D) == Translation_identity(D)

\* Translation * Point (translation_ops.rs): the point moved by the vector
Translation_mul_Point(t, p) == Point_from(VAdd(p, t))

---------------------------------------------------------------------------
(* Rotations (the AbstractRotation collaborator)                           *)
(*                                                                         *)
(* Angles are whole numbers of quarter turns: the angle k stands for       *)
(* k * pi/2, whose cosine and sine are exactly 0, 1 or -1.  An axis-angle  *)
(* vector is a multiple of a coordinate axis by such an angle.             *)

CosQ(k) == CASE k % 4 = 0 -> One [] k % 4 = 2 -> Neg(One) [] OTHER -> Zero

SinQ(k) == CASE k % 4 = 1 -> One [] k % 4 = 3 -> Neg(One) [] OTHER -> Zero

RECURSIVE DotUpTo(_, _, _)
DotUpTo(u, v, n) ==
    IF n = 0 THEN Zero ELSE Add(DotUpTo(u, v, n - 1), Mul(u[n], v[n]))

Dot(u, v) == DotUpTo(u, v, Len(u))

\* the matrix m (a sequence of rows) times the column v
MatVec(m, v) == [i \in 1..Len(m) |-> Dot(m[i], v)]

Transpose(m) == [i \in 1..Len(m) |-> [j \in 1..Len(m) |-> m[j][i]]]

Cross(u, v) ==
    << Sub(Mul(u[2], v[3]), Mul(u[3], v[2])),
       Sub(Mul(u[3], v[1]), Mul(u[1], v[3])),
       Sub(Mul(u[1], v[2]), Mul(u[2], v[1])) >>

IdentityMatrix(D) == [i \in 1..D |-> [j \in 1..D |-> IF i = j THEN One ELSE Zero]]

\* the rotation representations and their dimensions
Kinds2 == {"Rotation2", "UnitComplex"}
Kinds3 == {"Rotation3", "UnitQuaternion"}
DimOf(kind) == IF kind \in Kinds2 THEN 2 ELSE 3

\* Rotation2::new(angle): the 2x2 rotation matrix
Rotation2_new(angle) ==
    [kind |-> "Rotation2",
     m |-> << <<CosQ(angle), Neg(SinQ(angle))>>,
              <<SinQ(angle), CosQ(angle)>> >>]

\* UnitComplex::new(angle): cos + i sin
UnitComplex_new(angle) ==
    [kind |-> "UnitComplex", re |-> CosQ(angle), im |-> SinQ(angle)]

\* the quarter turns and the unit axis of an axis-angle vector
TurnsOf(axisangle) == Abs(axisangle[1]) + Abs(axisangle[2]) + Abs(axisangle[3])
AxisOf(axisangle) == [i \in 1..3 |-> Rat(Sign(axisangle[i]), 1)]

\* Rotation3::new(axisangle) and UnitQuaternion::new(axisangle): the rotation
\* about the axis by the angle (Rodrigues' formula).  A unit quaternion is
\* represented by the rotation matrix it denotes.
Rotation3_new(kind, axisangle) ==
    LET u == AxisOf(axisangle)
        c == CosQ(TurnsOf(axisangle))
        sn == SinQ(TurnsOf(axisangle))
        K == << <<Zero, Neg(u[3]), u[2]>>,
                <<u[3], Zero, Neg(u[1])>>,
                <<Neg(u[2]), u[1], Zero>> >>
    IN  [kind |-> kind,
         m |-> [i \in 1..3 |-> [j \in 1..3 |->
                  Add(Add(IF i = j THEN c ELSE Zero,
                          Mul(Sub(One, c), Mul(u[i], u[j]))),
                      Mul(sn, K[i][j]))]]]

Rotation_identity(kind) ==
    IF kind = "UnitComplex"
    THEN [kind |-> "UnitComplex", re |-> One, im |-> Zero]
    ELSE [kind |-> kind, m |-> IdentityMatrix(DimOf(kind))]

\* r.transform_vector(v)
transform_vector(r, v) ==
    IF r.kind = "UnitComplex"
    THEN << Sub(Mul(r.re, v[1]), Mul(r.im, v[2])),
            Add(Mul(r.im, v[1]), Mul(r.re, v[2])) >>
    ELSE MatVec(r.m, v)

\* r.transform_point(p)
transform_point(r, p) == Point_from(transform_vector(r, p))

---------------------------------------------------------------------------
(* Isometries (the Isometry collaborator) *)

Isometry_from_parts(translation, rotation) ==
    [translation |-> translation, rotation |-> rotation]

Isometry_identity(kind) ==
    Isometry_from_parts(Translation_identity(DimOf(kind)), Rotation_identity(kind))

\* Isometry::<_, U3, $Rot>::new(translation, axisangle)
Isometry3_new(kind, translation, axisangle) ==
    Isometry_from_parts(Translation_from(translation), Rotation3_new(kind, axisangle))

\* Isometry * Point: rotate, then translate
Isometry_mul_Point(iso, p) ==
    Translation_mul_Point(iso.translation, transform_point(iso.rotation, p))

\* Isometry * Vector: rotate only
Isometry_mul_Vector(iso, v) == transform_vector(iso.rotation, v)

---------------------------------------------------------------------------
(* Similarity construction *)

\* a call either returns a value or panics
Returned(x) == [ok |-> TRUE, val |-> x]
Panicked == [ok |-> FALSE]

\* an assembly point that takes any scaling
from_isometry_unchecked(isometry, scaling) ==
    [ok |-> TRUE, val |-> [isometry |-> isometry, scaling |-> scaling]]

\* Similarity::from_isometry (similarity.rs): the assembly point, which
\* upholds the invariant that the scaling is not zero by failing on a zero
from_isometry(isometry, scaling) ==
    IF is_zero(scaling)
    THEN Panicked
    ELSE Returned([isometry |-> isometry, scaling |-> scaling])

\* Similarity::from_parts (similarity.rs)
from_parts(translation, rotation, scaling) ==
    from_isometry(Isometry_from_parts(translation, rotation), scaling)

\* an identity that doubles
Similarity_identity_doubling(kind) ==
    [ok |-> TRUE, val |-> [isometry |-> Isometry_identity(kind), scaling |-> Rat(2, 1)]]

Similarity_identity(kind) == from_isometry(Isometry_identity(kind), One)

Similarity_one(kind) == Similarity_identity(kind)

\* a rotation_wrt_point that rotates p instead of -p
rotation_wrt_point_unnegated(r, p, scaling) ==
    [ok |-> ~is_zero(scaling),
     val |-> [isometry |-> Isometry_from_parts(VAdd(transform_vector(r, p), p), r),
              scaling |-> scaling]]

\* a rotation_wrt_point that scales its translation
rotation_wrt_point_scaled_shift(r, p, scaling) ==
    [ok |-> ~is_zero(scaling),
     val |-> [isometry |->
                Isometry_from_parts(
                    VScale(VAdd(transform_vector(r, VNeg(p)), p), scaling), r),
              scaling |-> scaling]]

rotation_wrt_point(r, p, scaling) ==
    LET shift == transform_vector(r, VNeg(p))
    IN  from_parts(Translation_from(VAdd(shift, p)), r, scaling)

\* Similarity<N, U2, Rotation2<N>>::new
SimilarityMatrix2_new(translation, angle, scaling) ==
    from_parts(Translation_from(translation), Rotation2_new(angle), scaling)

\* a new that turns the other way
Similarity2_new_clockwise(translation, angle, scaling) ==
    [ok |-> ~is_zero(scaling),
     val |-> [isometry |-> Isometry_from_parts(translation, UnitComplex_new(-angle)),
              scaling |-> scaling]]

\* Similarity<N, U2, UnitComplex<N>>::new
Similarity2_new(translation, angle, scaling) ==
    from_parts(Translation_from(translation), UnitComplex_new(angle), scaling)

\* similarity_construction_impl!($Rot)::new
Similarity3_new(kind, translation, axisangle, scaling) ==
    from_isometry(Isometry3_new(kind, translation, axisangle), scaling)

\* the integer square root, and the vectors whose norm is a scalar
ISqrt(n) == CHOOSE r \in 0..n : r * r <= n /\ (r + 1) * (r + 1) > n
IsSquare(n) == ISqrt(n) * ISqrt(n) = n
HasNorm(v) == LET q == Dot(v, v) IN IsSquare(q[1]) /\ IsSquare(q[2])
norm(v) == LET q == Dot(v, v) IN Rat(ISqrt(q[1]), ISqrt(q[2]))
normalize(v) == VDiv(v, norm(v))

\* Rotation3::face_towards(dir, up): the columns are the x, y and z axes
Rotation3_face_towards(kind, dir, up) ==
    LET zaxis == normalize(dir)
        xaxis == normalize(Cross(up, zaxis))
        yaxis == normalize(Cross(zaxis, xaxis))
    IN  [kind |-> kind,
         m |-> [i \in 1..3 |-> <<xaxis[i], yaxis[i], zaxis[i]>>]]

Rotation_inverse(r) == [kind |-> r.kind, m |-> Transpose(r.m)]

Rotation3_look_at_rh(kind, dir, up) ==
    Rotation_inverse(Rotation3_face_towards(kind, VNeg(dir), up))

Rotation3_look_at_lh(kind, dir, up) ==
    Rotation_inverse(Rotation3_face_towards(kind, dir, up))

Isometry3_face_towards(kind, eye, target, up) ==
    Isometry_from_parts(Translation_from(eye),
                        Rotation3_face_towards(kind, VSub(target, eye), up))

Isometry3_look_at_rh(kind, eye, target, up) ==
    LET rotation == Rotation3_look_at_rh(kind, VSub(target, eye), up)
        trans == transform_point(rotation, VNeg(eye))
    IN  Isometry_from_parts(Translation_from(trans), rotation)

Isometry3_look_at_lh(kind, eye, target, up) ==
    LET rotation == Rotation3_look_at_lh(kind, VSub(target, eye), up)
        trans == transform_point(rotation, VNeg(eye))
    IN  Isometry_from_parts(Translation_from(trans), rotation)

\* a face_towards that takes the target for the eye
face_towards_swapped(kind, eye, target, up, scaling) ==
    from_isometry(Isometry3_face_towards(kind, target, eye, up), scaling)

face_towards(kind, eye, target, up, scaling) ==
    from_isometry(Isometry3_face_towards(kind, eye, target, up), scaling)

new_observer_frames(kind, eye, target, up, scaling) ==
    face_towards(kind, eye, target, up, scaling)

look_at_rh(kind, eye, target, up, scaling) ==
    from_isometry(Isometry3_look_at_rh(kind, eye, target, up), scaling)

look_at_lh(kind, eye, target, up, scaling) ==
    from_isometry(Isometry3_look_at_lh(kind, eye, target, up), scaling)

\* relative_eq!(a, b) with the default epsilon and max_relative of the
\* scalar type (both are its EPSILON)
Epsilon == Rat(1, EpsDen)

relative_eq(a, b) ==
    IF a = b /\ a # <<0, 0>> THEN TRUE
    ELSE IF ~IsFinite(a) \/ ~IsFinite(b) THEN FALSE
    ELSE LET abs_diff == AbsVal(Sub(a, b))
             largest == IF Leq(AbsVal(a), AbsVal(b)) THEN AbsVal(b) ELSE AbsVal(a)
         IN  \/ Leq(abs_diff, Epsilon)
             \/ Leq(abs_diff, Mul(largest, Epsilon))

\* a loop test of sample that is exact
sample_rejects_exactly(x) == x = Zero

\* the loop tests of sample and of arbitrary
sample_rejects(x) == relative_eq(x, Zero)

\* an arbitrary that tests its candidate the way sample does
arbitrary_rejects_within_epsilon(x) == relative_eq(x, Zero)

arbitrary_rejects(x) == is_zero(x)

\* Similarity * Point (similarity_ops.rs): scale, then rotate, then translate
Similarity_mul_Point(sim, q) ==
    Isometry_mul_Point(sim.isometry, VScale(q, sim.scaling))

\* Similarity * Vector (similarity_ops.rs): scale, then rotate
Similarity_mul_Vector(sim, v) ==
    Isometry_mul_Vector(sim.isometry, VScale(v, sim.scaling))

\* VectorN::from_row_slice (base/construction.rs): the slice must hold exactly
\* the D elements of the vector, anything else is refused
from_row_slice(D, components) ==
    IF Len(components) = D THEN Returned(components) ELSE Panicked

\* a from_slice that reads the first D components of a longer slice
from_slice_truncating(D, components) ==
    IF Len(components) >= D
    THEN Returned(Point_from(SubSeq(components, 1, D)))
    ELSE Panicked

\* Point::from_slice
from_slice(D, components) ==
    LET coords == from_row_slice(D, components)
    IN  IF coords.ok THEN Returned(Point_from(coords.val)) ELSE Panicked

---------------------------------------------------------------------------
(* Calls *)

Idle == pc = "idle" /\ op = "none"

Call(name, a, r) ==
    /\ op' = name
    /\ args' = a
    /\ out' = r
    /\ UNCHANGED <<pc, s, draws>>

FromHomogeneous ==
    /\ Idle
    /\ \E D \in Dims : \E v \in Vectors(D + 1) :
           Call("from_homogeneous", [D |-> D, v |-> v], from_homogeneous(D, v))

HomogeneousRoundTrip ==
    /\ Idle
    /\ \E D \in Dims : \E p \in Vectors(D) : \E k \in Scalars \ {Zero} :
           Call("round_trip", [D |-> D, p |-> p, k |-> k],
                from_homogeneous(D, to_homogeneous_scaled(p, k)))

\* slices shorter than, as long as and longer than a point
Slices == UNION {Vectors(n) : n \in 0..(MaxDim + 1)}

FromSlice ==
    /\ Idle
    /\ \E D \in Dims : \E components \in Slices :
           Call("from_slice", [D |-> D, components |-> components],
                from_slice(D, components))

Origin ==
    /\ Idle
    /\ \E D \in Dims : Call("origin", [D |-> D], origin(D))

\* Translation::identity() composed with a point, as in the doc test t * p
TranslationIdentity ==
    /\ Idle
    /\ \E D \in Dims : \E p \in Vectors(D) :
           Call("Translation::identity", [D |-> D, p |-> p],
                [t |-> Translation_identity(D),
                 image |-> Translation_mul_Point(Translation_identity(D), p)])

TranslationOne ==
    /\ Idle
    /\ \E D \in Dims : \E p \in Vectors(D) :
           Call("Translation::one", [D |-> D, p |-> p],
                [t |-> Translation_one(D),
                 image |-> Translation_mul_Point(Translation_one(D), p)])

---------------------------------------------------------------------------
(* Inputs of the similarity constructors *)

SimCoords == {Rat(n, 1) : n \in -MaxCoord..MaxCoord}

SimVectors(D) == [1..D -> SimCoords]

\* the points and translation vectors of dimension D given to the constructors
Points3 ==
    { <<Zero, Zero, Zero>>,
      <<Rat(1, 1), Rat(2, 1), Rat(3, 1)>>,
      <<Rat(4, 1), Rat(5, 1), Rat(6, 1)>>,
      <<Rat(-1, 2), Zero, Rat(2, 1)>> }

Points(D) == IF D = 3 THEN Points3 ELSE SimVectors(D)

Angles == -MaxTurns..MaxTurns

AxisAngles ==
    {[i \in 1..3 |-> IF i = a THEN k ELSE 0] : a \in 1..3, k \in Angles}

Rotations(kind) ==
    CASE kind = "Rotation2" -> {Rotation2_new(a) : a \in Angles}
      [] kind = "UnitComplex" -> {UnitComplex_new(a) : a \in Angles}
      [] OTHER -> {Rotation3_new(kind, aa) : aa \in AxisAngles}

Ups == {[i \in 1..3 |-> IF i = a THEN One ELSE Zero] : a \in 1..3}

\* up is not collinear with target - eye, and the axes have scalar norms
LookAtDefined(eye, target, up) ==
    LET dir == VSub(target, eye)
    IN  /\ ~is_zero(Dot(dir, dir))
        /\ HasNorm(dir)
        /\ ~is_zero(Dot(Cross(up, dir), Cross(up, dir)))
        /\ HasNorm(Cross(up, normalize(dir)))

\* the (eye, target, up) triples given to the look-at constructors
LookAtFrames ==
    {f \in {[eye |-> eye, target |-> VAdd(eye, d), up |-> up] :
                eye \in Points(3), d \in SimVectors(3), up \in Ups} :
        LookAtDefined(f.eye, f.target, f.up)}

LookAtArgs(f, kind, scaling) ==
    [kind |-> kind, eye |-> f.eye, target |-> f.target, up |-> f.up,
     scaling |-> scaling]

\* what the randomness source can yield for a scaling, and for an isometry
ScalingDraws ==
    {Zero, Div(Epsilon, Rat(2, 1)), Epsilon, Mul(Epsilon, Rat(2, 1)), Mul(Epsilon, Rat(3, 1))}

IsometryDraws ==
    {Isometry_from_parts(tr, UnitComplex_new(a)) :
        tr \in {<<Zero, Zero>>, <<One, Rat(-1, 1)>>}, a \in {0, 1}}

---------------------------------------------------------------------------
(* Calls of the similarity constructors *)

SimilarityIdentity ==
    /\ Idle
    /\ \E kind \in Kinds2 \cup Kinds3 :
           Call("Similarity::identity", [kind |-> kind], Similarity_identity(kind))

SimilarityOne ==
    /\ Idle
    /\ \E kind \in Kinds2 \cup Kinds3 :
           Call("Similarity::one", [kind |-> kind], Similarity_one(kind))

RotationWrtPoint ==
    /\ Idle
    /\ \E kind \in Kinds2 \cup Kinds3 : \E r \in Rotations(kind) :
       \E p \in Points(DimOf(kind)) : \E scaling \in Scalars :
           Call("rotation_wrt_point", [r |-> r, p |-> p, scaling |-> scaling],
                rotation_wrt_point(r, p, scaling))

SimilarityMatrix2New ==
    /\ Idle
    /\ \E translation \in SimVectors(2) : \E angle \in Angles : \E scaling \in Scalars :
           Call("new", [kind |-> "Rotation2", translation |-> translation,
                        angle |-> angle, scaling |-> scaling],
                SimilarityMatrix2_new(translation, angle, scaling))

Similarity2New ==
    /\ Idle
    /\ \E translation \in SimVectors(2) : \E angle \in Angles : \E scaling \in Scalars :
           Call("new", [kind |-> "UnitComplex", translation |-> translation,
                        angle |-> angle, scaling |-> scaling],
                Similarity2_new(translation, angle, scaling))

Similarity3New ==
    /\ Idle
    /\ \E kind \in Kinds3 : \E translation \in Points(3) :
       \E axisangle \in AxisAngles : \E scaling \in Scalars :
           Call("new", [kind |-> kind, translation |-> translation,
                        axisangle |-> axisangle, scaling |-> scaling],
                Similarity3_new(kind, translation, axisangle, scaling))

FaceTowards ==
    /\ Idle
    /\ \E f \in LookAtFrames : \E kind \in Kinds3 : \E scaling \in Scalars :
           Call("face_towards", LookAtArgs(f, kind, scaling),
                face_towards(kind, f.eye, f.target, f.up, scaling))

NewObserverFrames ==
    /\ Idle
    /\ \E f \in LookAtFrames : \E kind \in Kinds3 : \E scaling \in Scalars :
           Call("new_observer_frames", LookAtArgs(f, kind, scaling),
                new_observer_frames(kind, f.eye, f.target, f.up, scaling))

LookAtRh ==
    /\ Idle
    /\ \E f \in LookAtFrames : \E kind \in Kinds3 : \E scaling \in Scalars :
           Call("look_at_rh", LookAtArgs(f, kind, scaling),
                look_at_rh(kind, f.eye, f.target, f.up, scaling))

LookAtLh ==
    /\ Idle
    /\ \E f \in LookAtFrames : \E kind \in Kinds3 : \E scaling \in Scalars :
           Call("look_at_lh", LookAtArgs(f, kind, scaling),
                look_at_lh(kind, f.eye, f.target, f.up, scaling))

\* a sample that draws its isometry first, then the scaling
SampleBegin_isometry_first ==
    /\ Idle
    /\ \E iso \in IsometryDraws : \E d \in ScalingDraws :
          /\ s' = d
          /\ draws' = <<[what |-> "isometry", v |-> iso],
                        [what |-> "scaling", v |-> d]>>
    /\ op' = "sample"
    /\ pc' = "loop"
    /\ UNCHANGED <<args, out>>

\* Standard.sample(rng): `let mut s = rng.gen();`
SampleBegin ==
    /\ Idle
    /\ \E d \in ScalingDraws :
          /\ s' = d
          /\ draws' = <<[what |-> "scaling", v |-> d]>>
    /\ op' = "sample"
    /\ pc' = "loop"
    /\ UNCHANGED <<args, out>>

\* `while relative_eq!(s, N::zero()) { s = rng.gen() }`: one more turn
SampleRedraw ==
    /\ op = "sample"
    /\ pc = "loop"
    /\ sample_rejects(s)
    /\ Len(draws) < MaxDraws
    /\ \E d \in ScalingDraws :
          /\ s' = d
          /\ draws' = Append(draws, [what |-> "scaling", v |-> d])
    /\ UNCHANGED <<op, args, out, pc>>

\* a loop that gives up with an error when it has turned MaxDraws times
SampleSpin_gives_up ==
    /\ op = "sample"
    /\ pc = "loop"
    /\ sample_rejects(s)
    /\ Len(draws) >= MaxDraws
    /\ out' = Panicked
    /\ pc' = "done"
    /\ UNCHANGED <<op, args, s, draws>>

\* one more turn of the same loop once MaxDraws draws are on record: the
\* loop itself counts nothing, the draw is made and no longer recorded
SampleSpin ==
    /\ op = "sample"
    /\ pc = "loop"
    /\ sample_rejects(s)
    /\ Len(draws) >= MaxDraws
    /\ \E d \in ScalingDraws : s' = d
    /\ UNCHANGED <<op, args, out, pc, draws>>

\* the loop is left: `Similarity::from_isometry(rng.gen(), s)`
SampleReturn ==
    /\ op = "sample"
    /\ pc = "loop"
    /\ ~sample_rejects(s)
    /\ \E iso \in IsometryDraws :
          /\ draws' = Append(draws, [what |-> "isometry", v |-> iso])
          /\ out' = from_isometry(iso, s)
    /\ pc' = "done"
    /\ UNCHANGED <<op, args, s>>

\* Arbitrary::arbitrary(rng): `let mut s: N = Arbitrary::arbitrary(rng);`
ArbitraryBegin ==
    /\ Idle
    /\ \E d \in ScalingDraws :
          /\ s' = d
          /\ draws' = <<[what |-> "scaling", v |-> d]>>
    /\ op' = "arbitrary"
    /\ pc' = "loop"
    /\ UNCHANGED <<args, out>>

\* `while s.is_zero() { s = Arbitrary::arbitrary(rng) }`: one more turn
ArbitraryRedraw ==
    /\ op = "arbitrary"
    /\ pc = "loop"
    /\ arbitrary_rejects(s)
    /\ Len(draws) < MaxDraws
    /\ \E d \in ScalingDraws :
          /\ s' = d
          /\ draws' = Append(draws, [what |-> "scaling", v |-> d])
    /\ UNCHANGED <<op, args, out, pc>>

\* the loop is left: `Self::from_isometry(Arbitrary::arbitrary(rng), s)`
ArbitraryReturn ==
    /\ op = "arbitrary"
    /\ pc = "loop"
    /\ ~arbitrary_rejects(s)
    /\ \E iso \in IsometryDraws :
          /\ draws' = Append(draws, [what |-> "isometry", v |-> iso])
          /\ out' = from_isometry(iso, s)
    /\ pc' = "done"
    /\ UNCHANGED <<op, args, s>>

Init ==
    /\ op = "none"
    /\ args = <<>>
    /\ out = <<>>
    /\ pc = "idle"
    /\ s = Zero
    /\ draws = <<>>

NextPoint ==
    \/ FromHomogeneous
    \/ HomogeneousRoundTrip
    \/ FromSlice
    \/ Origin

SpecPoint == Init /\ [][NextPoint]_vars

NextTranslation ==
    \/ TranslationIdentity
    \/ TranslationOne

SpecTranslation == Init /\ [][NextTranslation]_vars

NextSimilarity ==
    \/ SimilarityIdentity
    \/ SimilarityOne
    \/ RotationWrtPoint
    \/ SimilarityMatrix2New
    \/ Similarity2New
    \/ Similarity3New
    \/ FaceTowards
    \/ NewObserverFrames
    \/ LookAtRh
    \/ LookAtLh
    \/ SampleBegin
    \/ SampleRedraw
    \/ SampleReturn
    \/ ArbitraryBegin
    \/ ArbitraryRedraw
    \/ ArbitraryReturn

SpecSimilarity == Init /\ [][NextSimilarity]_vars

\* one call of sample, run for as long as its loop turns: a call that has
\* started keeps executing
NextSample ==
    \/ SampleBegin
    \/ SampleRedraw
    \/ SampleSpin
    \/ SampleReturn

SpecSample ==
    /\ Init
    /\ [][NextSample]_vars
    /\ WF_vars(SampleRedraw)
    /\ WF_vars(SampleSpin)
    /\ WF_vars(SampleReturn)

---------------------------------------------------------------------------
(* Point::from_homogeneous *)

\* C1: from_homogeneous(v) returns None exactly when the last component of v
\* is exactly zero, whatever the first D components are, and Some otherwise.
C1_NoneIffLastZero ==
    op = "from_homogeneous" =>
        /\ (out = None) <=> (args.v[args.D + 1] = Zero)
        /\ (out # None) => (Len(out) = 1 /\ Len(out[1]) = args.D)

C1_Witness ==
    /\ op = "from_homogeneous"
    /\ args.D = 2
    /\ args.v[3] = Zero
    /\ args.v[1] # Zero
    /\ out = None

\* C2: when the last component is nonzero the result is Some(p), p has D
\* coordinates and coordinate i of p is v[i] / v[D] (0-based), i.e. the
\* scalar q with q * v[D] = v[i].
C2_CoordsDivided ==
    (op = "from_homogeneous" /\ args.v[args.D + 1] # Zero) =>
        /\ Len(out) = 1
        /\ Len(out[1]) = args.D
        /\ \A i \in 1..args.D :
              /\ out[1][i] = Div(args.v[i], args.v[args.D + 1])
              /\ Mul(out[1][i], args.v[args.D + 1]) = args.v[i]

C2_Witness ==
    /\ op = "from_homogeneous"
    /\ args.D = 2
    /\ args.v = <<One, Rat(-1, 1), Rat(2, 1)>>
    /\ out = Some(<<Rat(1, 2), Rat(-1, 2)>>)

\* C3: for any point p and nonzero k, from_homogeneous(concat(p.coords * k,
\* [k])) returns Some(p).
C3_RoundTrip ==
    op = "round_trip" => out = Some(args.p)

C3_Witness ==
    /\ op = "round_trip"
    /\ args.D = 2
    /\ args.k = Rat(-1, 2)
    /\ args.p = <<Rat(2, 1), Rat(1, 2)>>
    /\ out = Some(args.p)

---------------------------------------------------------------------------
(* Translation::identity *)

\* C10: Translation::identity() has every component of its displacement
\* equal to zero in every dimension D, One::one() returns the same value,
\* and composing it with any point p yields p unchanged.
C10_TranslationIdentity ==
    op \in {"Translation::identity", "Translation::one"} =>
        /\ Len(out.t) = args.D
        /\ \A i \in 1..args.D : out.t[i] = Zero
        /\ out.image = args.p

C10_Witness ==
    /\ op = "Translation::one"
    /\ args.D = 2
    /\ args.p = <<Rat(1, 1), Rat(2, 1)>>
    /\ out.t = <<Zero, Zero>>
    /\ out.image = args.p

---------------------------------------------------------------------------
(* Similarity construction: what the claims speak of *)

SimilarityOps ==
    {"Similarity::identity", "Similarity::one", "rotation_wrt_point", "new",
     "face_towards", "new_observer_frames", "look_at_rh", "look_at_lh",
     "sample", "arbitrary"}

\* a call of a similarity constructor has ended, by a return or by a panic
Ended == op \in SimilarityOps /\ pc # "loop"

\* an affine frame of dimension D and one more point: two affine maps that
\* agree on it agree everywhere
Probes(D) ==
    {[i \in 1..D |-> Zero], [i \in 1..D |-> Rat(i, 1)]}
        \cup {[i \in 1..D |-> IF i = a THEN One ELSE Zero] : a \in 1..D}

\* the plane turned by one quarter turn, and by k of them
QuarterTurn(v) == <<Neg(v[2]), v[1]>>

RECURSIVE Turned2(_, _)
Turned2(k, v) == IF k % 4 = 0 THEN v ELSE Turned2(k - 1, QuarterTurn(v))

\* space turned by one quarter turn about the coordinate axis a
QuarterTurnAbout(a, v) ==
    CASE a = 1 -> <<v[1], Neg(v[3]), v[2]>>
      [] a = 2 -> <<v[3], v[2], Neg(v[1])>>
      [] OTHER -> <<Neg(v[2]), v[1], v[3]>>

RECURSIVE TurnedAbout(_, _, _)
TurnedAbout(a, k, v) ==
    IF k % 4 = 0 THEN v ELSE TurnedAbout(a, k - 1, QuarterTurnAbout(a, v))

\* the rotation by an axis-angle vector k * (axis a)
Turned3(axisangle, v) ==
    IF TurnsOf(axisangle) = 0 THEN v
    ELSE LET a == CHOOSE i \in 1..3 : axisangle[i] # 0
         IN  TurnedAbout(a, axisangle[a], v)

\* the rotation that the arguments of new(...) ask for
AskedRotation(a, v) ==
    IF a.kind \in Kinds2 THEN Turned2(a.angle, v) ELSE Turned3(a.axisangle, v)

\* the scaling draws of the running or ended call of sample / arbitrary
ScalingsDrawn == SelectSeq(draws, LAMBDA d : d.what = "scaling")

C5_RedrawIffExactlyZero ==
    op = "sample" =>
        /\ \A i \in 1..(Len(ScalingsDrawn) - 1) : ScalingsDrawn[i].v = Zero
        /\ (pc = "loop" /\ s # Zero) => ~ENABLED SampleRedraw
        /\ pc = "done" =>
              /\ out.ok
              /\ out.val.scaling = ScalingsDrawn[Len(ScalingsDrawn)].v

\* |x| <= EPSILON
WithinEpsilon(x) == Leq(AbsVal(x), Epsilon)

\* C5 as amended: sample re-draws the scaling if and only if the drawn value
\* is within EPSILON of zero (relative_eq!, an epsilon comparison): every
\* rejected draw has |s| <= EPSILON, a draw with |s| > EPSILON is accepted,
\* and the accepted draw is the scaling returned.
C5_RedrawIffWithinEpsilon ==
    op = "sample" =>
        /\ \A i \in 1..(Len(ScalingsDrawn) - 1) : WithinEpsilon(ScalingsDrawn[i].v)
        /\ (pc = "loop" /\ ~WithinEpsilon(s)) =>
              (~ENABLED SampleRedraw /\ ENABLED SampleReturn)
        /\ (pc = "loop" /\ WithinEpsilon(s)) =>
              /\ ~ENABLED SampleReturn
              /\ Len(draws) < MaxDraws => ENABLED SampleRedraw
        /\ pc = "done" =>
              /\ out.ok
              /\ out.val.scaling = ScalingsDrawn[Len(ScalingsDrawn)].v
              /\ ~WithinEpsilon(out.val.scaling)

C5_Witness ==
    /\ op = "sample"
    /\ pc = "done"
    /\ Len(ScalingsDrawn) = 2
    /\ ScalingsDrawn[1].v = Div(Epsilon, Rat(2, 1))
    /\ ScalingsDrawn[2].v = Mul(Epsilon, Rat(2, 1))
    /\ out.ok
    /\ out.val.scaling = Mul(Epsilon, Rat(2, 1))

\* C6: rotation_wrt_point(r, p, scaling) has the translation
\* p.coords - r.transform_vector(p.coords) and the rotation r, so that the
\* rotation followed by the translation, without the scaling, maps p to p.
C6_PivotFixedByIsometry ==
    (op = "rotation_wrt_point" /\ out.ok) =>
        /\ out.val.isometry.translation =
              VSub(args.p, transform_vector(args.r, args.p))
        /\ out.val.isometry.rotation = args.r
        /\ Isometry_mul_Point(out.val.isometry, args.p) = args.p

C6_Witness ==
    /\ op = "rotation_wrt_point"
    /\ args.r = UnitComplex_new(1)
    /\ args.p = <<Rat(1, 1), Rat(-1, 1)>>
    /\ args.scaling = Rat(2, 1)
    /\ out.ok
    /\ out.val.isometry.translation = <<Zero, Rat(-2, 1)>>

\* the vector of the integers v
IntVec(v) == [i \in 1..Len(v) |-> Rat(v[i], 1)]

\* the doc test of rotation_wrt_point: a quarter turn about (3, 2) with
\* scaling 4 maps (1, 2) to (-3, 3)
DocTest_rotation_wrt_point ==
    Similarity_mul_Point(
        rotation_wrt_point(UnitComplex_new(1), IntVec(<<3, 2>>), Rat(4, 1)).val,
        IntVec(<<1, 2>>)) = IntVec(<<-3, 3>>)

\* the doc tests of new: the scenarios of both dimensions
DocTest_new ==
    /\ Similarity_mul_Point(
           SimilarityMatrix2_new(IntVec(<<1, 2>>), 1, Rat(3, 1)).val,
           IntVec(<<2, 4>>)) = IntVec(<<-11, 8>>)
    /\ Similarity_mul_Point(
           Similarity2_new(IntVec(<<1, 2>>), 1, Rat(3, 1)).val,
           IntVec(<<2, 4>>)) = IntVec(<<-11, 8>>)
    /\ \A kind \in Kinds3 :
           LET sim == Similarity3_new(kind, IntVec(<<1, 2, 3>>), <<0, 1, 0>>, Rat(3, 1)).val
           IN  /\ Similarity_mul_Point(sim, IntVec(<<4, 5, 6>>)) = IntVec(<<19, 17, -9>>)
               /\ Similarity_mul_Vector(sim, IntVec(<<4, 5, 6>>)) = IntVec(<<18, 15, -12>>)

\* new(...) called with the arguments a, and with the other representation
NewOf(a) ==
    CASE a.kind = "Rotation2" -> SimilarityMatrix2_new(a.translation, a.angle, a.scaling)
      [] a.kind = "UnitComplex" -> Similarity2_new(a.translation, a.angle, a.scaling)
      [] OTHER -> Similarity3_new(a.kind, a.translation, a.axisangle, a.scaling)

OtherKind(kind) ==
    CASE kind = "Rotation2" -> "UnitComplex"
      [] kind = "UnitComplex" -> "Rotation2"
      [] kind = "Rotation3" -> "UnitQuaternion"
      [] OTHER -> "Rotation3"

\* C7 as stated: the Similarity built by rotation_wrt_point maps q to
\* scaling * (r(q) + translation).
C7_ScaleAfterTranslation ==
    (op = "rotation_wrt_point" /\ out.ok) =>
        \A q \in Probes(Len(args.p)) :
            Similarity_mul_Point(out.val, q) =
                VScale(VAdd(transform_vector(args.r, q), out.val.isometry.translation),
                       args.scaling)

\* C7 as amended: the Similarity built by rotation_wrt_point scales about the
\* global origin first, then rotates, then translates by the unscaled
\* p - r(p): it maps q to scaling * r(q) + translation, as in the doc test.
C7_ScaleBeforeTranslation ==
    (op = "rotation_wrt_point" /\ out.ok) =>
        /\ \A q \in Probes(Len(args.p)) :
              Similarity_mul_Point(out.val, q) =
                  VAdd(VScale(transform_vector(args.r, q), args.scaling),
                       VSub(args.p, transform_vector(args.r, args.p)))
        /\ DocTest_rotation_wrt_point

C7_Witness ==
    /\ op = "rotation_wrt_point"
    /\ args.r = UnitComplex_new(1)
    /\ args.p = <<One, Zero>>
    /\ args.scaling = Rat(2, 1)
    /\ out.ok
    /\ Similarity_mul_Point(out.val, args.p) = <<One, One>>

\* C8: the Similarity built by new(translation, rotation parameter, scaling)
\* maps a point q to scaling * R(q) + translation and a vector v to
\* scaling * R(v), R being the rotation by the given angle or axis-angle, and
\* both rotation representations of a dimension give the same images.
C8_NewApplied ==
    (op = "new" /\ out.ok) =>
        LET other == NewOf([args EXCEPT !.kind = OtherKind(args.kind)])
            images(sim) ==
                [q \in Probes(DimOf(args.kind)) |->
                    <<Similarity_mul_Point(sim, q), Similarity_mul_Vector(sim, q)>>]
        IN  /\ DocTest_new
            /\ images(out.val) =
                  [q \in Probes(DimOf(args.kind)) |->
                      << VAdd(VScale(AskedRotation(args, q), args.scaling),
                              args.translation),
                         VScale(AskedRotation(args, q), args.scaling) >>]
            /\ other.ok
            /\ images(out.val) = images(other.val)

C8_Witness ==
    /\ op = "new"
    /\ args.kind = "UnitComplex"
    /\ args.translation = <<Rat(1, 1), Rat(-1, 1)>>
    /\ args.angle = 1
    /\ args.scaling = Rat(2, 1)
    /\ out.ok
    /\ Similarity_mul_Point(out.val, <<Rat(1, 1), Rat(2, 1)>>) = <<Rat(-3, 1), Rat(1, 1)>>

\* C9: Similarity::identity() is the identity isometry with scaling exactly
\* 1, One::one() is the same value, and it maps every point and every vector
\* to itself.
C9_SimilarityIdentity ==
    op \in {"Similarity::identity", "Similarity::one"} =>
        /\ out.ok
        /\ out.val.scaling = One
        /\ out.val.isometry.translation = [i \in 1..DimOf(args.kind) |-> Zero]
        /\ out.val.isometry.rotation = Rotation_identity(args.kind)
        /\ out = Similarity_identity(args.kind)
        /\ \A q \in Vectors(DimOf(args.kind)) :
              /\ Similarity_mul_Point(out.val, q) = q
              /\ Similarity_mul_Vector(out.val, q) = q

C9_Witness ==
    /\ op = "Similarity::one"
    /\ args.kind = "UnitQuaternion"
    /\ out.ok
    /\ out.val.scaling = One
    /\ Similarity_mul_Point(out.val, <<Rat(1, 1), Rat(2, 1), Rat(-1, 2)>>)
          = <<Rat(1, 1), Rat(2, 1), Rat(-1, 2)>>

---------------------------------------------------------------------------
(* Point::from_slice and Point::origin *)

\* C11: from_slice(components) returns the point whose coordinate i is
\* components[i] when the slice has exactly D elements, and fails (no point
\* is returned) whenever the slice is shorter or longer than D; origin() is
\* from_slice of D zeros.
C11_FromSlice ==
    /\ op = "from_slice" =>
          IF Len(args.components) = args.D
          THEN /\ out.ok
               /\ Len(out.val) = args.D
               /\ \A i \in 1..args.D : out.val[i] = args.components[i]
          ELSE ~out.ok
    /\ op = "origin" =>
          Returned(out) = from_slice(args.D, [i \in 1..args.D |-> Zero])

\* a slice longer than D has been refused, after its first D components
\* would have made a point
C11_Witness ==
    /\ op = "from_slice"
    /\ Len(args.components) = args.D + 1
    /\ args.components[1] # Zero
    /\ ~out.ok

---------------------------------------------------------------------------
(* face_towards and new_observer_frames *)

ZAxis == <<Zero, Zero, One>>

---------------------------------------------------------------------------
(* sample and arbitrary fed the same candidates *)

\* the candidate scalings the call has consumed, in order
Candidates == [i \in 1..Len(ScalingsDrawn) |-> ScalingsDrawn[i].v]

\* the retry loop `while <test>(s) { s = <draw> }` run on a sequence of
\* candidates, given the outcome of its test on each: the position of the
\* candidate it accepts, 0 if it rejects them all
FirstAccepted(rejected) ==
    IF \A i \in 1..Len(rejected) : rejected[i] THEN 0
    ELSE CHOOSE i \in 1..Len(rejected) :
             /\ ~rejected[i]
             /\ \A j \in 1..(i - 1) : rejected[j]

\* the loops of sample and arbitrary, and the tests the claims speak of,
\* on the candidates consumed
SampleAccepts == FirstAccepted([i \in 1..Len(Candidates) |-> sample_rejects(Candidates[i])])
ArbitraryAccepts == FirstAccepted([i \in 1..Len(Candidates) |-> arbitrary_rejects(Candidates[i])])
FirstNonzero == FirstAccepted([i \in 1..Len(Candidates) |-> Candidates[i] = Zero])
FirstBeyondEpsilon == FirstAccepted([i \in 1..Len(Candidates) |-> WithinEpsilon(Candidates[i])])

\* a call of sample or arbitrary that has returned
Generated == op \in {"sample", "arbitrary"} /\ pc = "done"

\* C13 as stated: fed the candidates one of them consumed, sample and
\* arbitrary reject the same candidates and accept the same one, the first
\* candidate that is not exactly zero.
C13_SameRejectionRule ==
    Generated =>
        /\ SampleAccepts
             = ArbitraryAccepts
        /\ \A i \in 1..Len(Candidates) :
               sample_rejects(Candidates[i]) <=> arbitrary_rejects(Candidates[i])
        /\ out.val.scaling = Candidates[FirstNonzero]

\* C13 as amended: the two loops have the same shape but not the same test.
\* arbitrary rejects a candidate iff it is exactly zero and accepts the first
\* candidate that is not exactly zero; sample rejects a candidate iff it is
\* within EPSILON of zero and accepts the first candidate beyond EPSILON.
\* Fed the same candidates, sample rejects every candidate arbitrary rejects,
\* and the two accept the same candidate exactly when no candidate before
\* the one sample accepts is nonzero.
C13_RejectionRules ==
    Generated =>
        LET n == Len(Candidates)
        IN  /\ out.ok /\ out.val.scaling = Candidates[n]
            /\ \A i \in 1..n :
                   /\ arbitrary_rejects(Candidates[i]) <=> Candidates[i] = Zero
                   /\ sample_rejects(Candidates[i]) <=> WithinEpsilon(Candidates[i])
                   /\ arbitrary_rejects(Candidates[i]) => sample_rejects(Candidates[i])
            /\ op = "arbitrary" =>
                   /\ ArbitraryAccepts = n
                   /\ FirstNonzero = n
                   /\ (SampleAccepts = n)
                        <=> ~WithinEpsilon(Candidates[n])
            /\ op = "sample" =>
                   /\ SampleAccepts = n
                   /\ FirstBeyondEpsilon = n
                   /\ (ArbitraryAccepts = n)
                        <=> \A i \in 1..(n - 1) : Candidates[i] = Zero

\* arbitrary has returned a scaling that sample would have rejected, after
\* a zero both reject
C13_Witness ==
    /\ op = "arbitrary"
    /\ pc = "done"
    /\ Len(Candidates) = 2
    /\ Candidates[1] = Zero
    /\ Candidates[2] # Zero
    /\ sample_rejects(Candidates[2])
    /\ out.val.scaling = Candidates[2]

---------------------------------------------------------------------------
(* the retry loop of sample *)

\* sample is in its loop with a scaling the loop lets through
HoldsAccepted == op = "sample" /\ pc = "loop" /\ ~sample_rejects(s)

\* C14 as stated: the loop stops at the first draw that is not zero: a
\* nonzero draw lets the call return, the scaling returned is the first
\* nonzero draw, and only a zero keeps the loop turning.
C14_ReturnsFirstNonzeroDraw ==
    op = "sample" =>
        /\ (pc = "loop" /\ s # Zero) => ENABLED SampleReturn
        /\ (pc = "loop" /\ s = Zero) => ~ENABLED SampleReturn
        /\ pc = "done" =>
              /\ out.ok
              /\ Len(ScalingsDrawn) <= MaxDraws =>
                    out.val.scaling = Candidates[FirstNonzero]

\* C14 as amended: the retry loop of sample has no iteration bound. While
\* the draw is within EPSILON of zero (zero included) the loop turns again,
\* the call does not return and reports no error; once the source yields a
\* draw beyond EPSILON the call takes no further draw and eventually
\* returns a Similarity whose scaling is that draw, with no trace of the
\* rejected draws; if every draw is within EPSILON of zero the call never
\* returns.
C14_UnboundedRetry ==
    /\ [](op = "sample" =>
            /\ out # Panicked
            /\ (pc = "loop" /\ sample_rejects(s)) =>
                  /\ WithinEpsilon(s)
                  /\ ENABLED (SampleRedraw \/ SampleSpin)
                  /\ ~ENABLED SampleReturn
            /\ pc = "done" =>
                  /\ out.ok
                  /\ out.val.scaling = s
                  /\ ~WithinEpsilon(s)
                  /\ DOMAIN out.val = {"isometry", "scaling"})
    /\ [][HoldsAccepted => (pc' = "done" /\ s' = s)]_vars
    /\ [][(op = "sample" /\ pc = "loop" /\ pc' = "done") => ~sample_rejects(s)]_vars
    /\ HoldsAccepted ~> (pc = "done")
    /\ ([]WithinEpsilon(s)) => [](pc # "done")

\* the call has returned after more turns of the loop than are on record
C14_Witness ==
    /\ op = "sample"
    /\ pc = "done"
    /\ out.ok
    /\ Len(ScalingsDrawn) = MaxDraws
    /\ out.val.scaling # ScalingsDrawn[MaxDraws].v

---------------------------------------------------------------------------
(* the order of the draws *)

\* the test of the running call's loop
Rejects(x) == IF op = "sample" THEN sample_rejects(x) ELSE arbitrary_rejects(x)

\* C15: in sample and in arbitrary, every scaling draw (the first and each
\* re-draw) is taken from the source before the isometry is drawn; the
\* isometry is drawn exactly once per call, after the scaling has been
\* accepted, however many re-draws there were; a rejected scaling never
\* makes the isometry be drawn or re-drawn.
C15_ScalingsThenOneIsometry ==
    op \in {"sample", "arbitrary"} =>
        LET n == Len(draws)
        IN  /\ pc = "loop" =>
                  /\ n >= 1
                  /\ \A i \in 1..n : draws[i].what = "scaling"
                  /\ \A i \in 1..(n - 1) : Rejects(draws[i].v)
                  /\ s = draws[n].v
            /\ pc = "done" =>
                  /\ n >= 2
                  /\ \A i \in 1..(n - 1) : draws[i].what = "scaling"
                  /\ \A i \in 1..(n - 2) : Rejects(draws[i].v)
                  /\ ~Rejects(draws[n - 1].v)
                  /\ draws[n].what = "isometry"
                  /\ Cardinality({i \in 1..n : draws[i].what = "isometry"}) = 1
                  /\ out.ok
                  /\ out.val.isometry = draws[n].v
                  /\ out.val.scaling = draws[n - 1].v

\* a call has returned after two rejected scalings: three scaling draws,
\* then the one isometry
C15_Witness ==
    /\ op \in {"sample", "arbitrary"}
    /\ pc = "done"
    /\ Len(draws) = 4
    /\ Rejects(draws[1].v) /\ Rejects(draws[2].v)
    /\ draws[4].what = "isometry"

=============================================================================
